---- MODULE Spec2Model ----
(***************************************************************************)
(* Model of the data-discovery core of ModelForge: the DatasetCatalog      *)
(* (catalog.py), the DataDiscoveryService orchestrator                     *)
(* (discovery_service.py), the session life cycle of the connectors        *)
(* (connectors/base.py) and the storage bridge (storage/supabase.py).      *)
(*                                                                         *)
(* Strings that the code inspects character by character (names,           *)
(* descriptions, tags, queries) are sequences of one-character strings.    *)
(* An Optional value is a sequence of length 0 (None) or 1.                *)
(***************************************************************************)
EXTENDS Integers, Sequences, FiniteSets, TLC

(***************************************************************************)
(* Bounds of the model.                                                    *)
(***************************************************************************)
MaxTime == 1       \* the clock runs over 0..MaxTime
MaxInst == 4       \* connector instances constructed in one behaviour
MaxDepth == 2      \* nested "async with service" scopes
TicksPerSecond == 2     \* the resolution of the clock
MaxFetchSeconds == 3    \* the clock of SpecFetch stops there
MaxRateSeconds == 31    \* the clock of SpecRate stops there
MaxConn == 1            \* connectors constructed by a caller
MaxConnSeconds == 2     \* the clock of SpecConnector stops there
MaxScopes == 2          \* scopes a caller enters on one connector
MaxFanoutSeconds == 1   \* the clock of SpecFanout stops there
MaxDataSeconds == 1     \* the clock of SpecData stops there

(***************************************************************************)
(* Python helpers.                                                         *)
(***************************************************************************)
None == <<>>
Some(x) == <<x>>

Range(s) == {s[i] : i \in 1..Len(s)}

\* str.lower() on the ASCII letters the model uses
LowerChar(c) ==
    CASE c = "P" -> "p"
      [] c = "R" -> "r"
      [] c = "A" -> "a"
      [] c = "B" -> "b"
      [] OTHER -> c

Lower(s) == [i \in 1..Len(s) |-> LowerChar(s[i])]

\* Python's `q in s` for strings: q occurs in s as a contiguous substring
StrIn(q, s) ==
    \E i \in 0..(Len(s) - Len(q)) : SubSeq(s, i + 1, i + Len(q)) = q

(***************************************************************************)
(* DatasetMetadata (models.py).  The connectors build one from each entry  *)
(* of their listing and stamp it with the time of the conversion.          *)
(***************************************************************************)
Ids == {"IPC", "EPA", "GDP"}

\* DatasetSchema (models.py:5-10): a model object, which is not the dict of
\* its fields
DatasetSchema(name, data_type, description, is_nullable) ==
    <<"DatasetSchema",
      [name |-> name, data_type |-> data_type, description |-> description,
       is_nullable |-> is_nullable]>>

\* schema mappings as the connectors build them, keyed by the field's name
SchemaValor == [k \in {"valor"} |-> DatasetSchema(k, "float", None, TRUE)]

SchemaFecha ==
    [k \in {"fecha", "valor"} |->
        IF k = "fecha" THEN DatasetSchema(k, "datetime", Some(<<"b">>), FALSE)
        ELSE DatasetSchema(k, "float", None, TRUE)]

RawIPC == [id |-> "IPC", name |-> <<"P", "r">>, source |-> "ine",
           description |-> None, tags |-> <<>>, schema |-> SchemaValor]
RawEPA == [id |-> "EPA", name |-> <<"A", "b">>, source |-> "ine",
           description |-> Some(<<"p", "R", "a">>), tags |-> <<>>,
           schema |-> SchemaValor]
RawIPCw == [id |-> "IPC", name |-> <<"R", "a">>, source |-> "aemet",
            description |-> Some(<<"b">>),
            tags |-> << <<"P", "a">>, <<"b">> >>, schema |-> SchemaFecha]
RawGDP == [id |-> "GDP", name |-> <<"B">>, source |-> "eurostat",
           description |-> None, tags |-> << <<"a", "B">> >>,
           schema |-> SchemaFecha]
RawObs == [id |-> "EPA", name |-> <<"O">>, source |-> "aemet",
           description |-> None, tags |-> <<>>, schema |-> SchemaFecha]

DatasetMetadata(raw, t) ==
    [id |-> raw.id, name |-> raw.name, source |-> raw.source,
     schema |-> raw.schema,
     description |-> raw.description, tags |-> raw.tags, last_updated |-> t]

(***************************************************************************)
(* A Python dict keyed by dataset id, in insertion order: a sequence of    *)
(* values, the key of a value being its id.                                *)
(***************************************************************************)
DictKeys(d) == {d[i].id : i \in 1..Len(d)}

DictHas(d, k) == \E i \in 1..Len(d) : d[i].id = k

DictGet(d, k) == d[CHOOSE i \in 1..Len(d) : d[i].id = k]

\* d[v.id] = v : replaces the value of an existing key in place, appends a new key
DictSet(d, v) ==
    IF DictHas(d, v.id)
    THEN [i \in 1..Len(d) |-> IF d[i].id = v.id THEN v ELSE d[i]]
    ELSE Append(d, v)

\* del d[k]
DictDel(d, k) == SelectSeq(d, LAMBDA e : e.id # k)

(***************************************************************************)
(* DatasetCatalog (catalog.py).  An operation that can raise returns a     *)
(* record with the status and the value.                                   *)
(***************************************************************************)
\* mutant: an id that is already there keeps its value (setdefault)
add_dataset_keep(d, metadata) ==
    IF DictHas(d, metadata.id) THEN d ELSE Append(d, metadata)

\* mutant: every call appends an entry (a list, not a dict)
add_dataset_append(d, metadata) == Append(d, metadata)

add_dataset(d, metadata) == DictSet(d, metadata)

get_dataset(d, id) ==
    IF ~DictHas(d, id)
    THEN [status |-> "KeyError", value |-> None]
    ELSE [status |-> "ok", value |-> Some(DictGet(d, id))]

\* mutant: the name is compared as it is written, not lowered
QueryMatches_raw_name(q, dataset) ==
    \/ StrIn(q, dataset.name)
    \/ /\ dataset.description # None
       /\ dataset.description[1] # <<>>
       /\ StrIn(q, Lower(dataset.description[1]))
    \/ \E i \in 1..Len(dataset.tags) : StrIn(q, Lower(dataset.tags[i]))

\* the match of one dataset against the lowered query (catalog.py:46-48)
QueryMatches(q, dataset) ==
    \/ StrIn(q, Lower(dataset.name))
    \/ /\ dataset.description # None
       /\ dataset.description[1] # <<>>
       /\ StrIn(q, Lower(dataset.description[1]))
    \/ \E i \in 1..Len(dataset.tags) : StrIn(q, Lower(dataset.tags[i]))

\* mutant: one listed tag is enough (OR semantics)
TagsReject_any(tags, dataset) ==
    /\ tags # None
    /\ tags[1] # <<>>
    /\ ~(\E i \in 1..Len(tags[1]) : tags[1][i] \in Range(dataset.tags))

\* the tags filter (catalog.py:51): tags is None or Some(list of tags)
TagsReject(tags, dataset) ==
    /\ tags # None
    /\ tags[1] # <<>>
    /\ ~(\A i \in 1..Len(tags[1]) : tags[1][i] \in Range(dataset.tags))

search_datasets(d, query, tags) ==
    LET q == Lower(query)
    IN  SelectSeq(d, LAMBDA dataset :
            QueryMatches(q, dataset) /\ ~TagsReject(tags, dataset))

list_datasets(d) == d

\* mutant: a present id empties the mapping (clear, not del)
remove_dataset_clear(d, id) == IF DictHas(d, id) THEN <<>> ELSE d

remove_dataset(d, id) == IF DictHas(d, id) THEN DictDel(d, id) ELSE d

(***************************************************************************)
(* SupabaseStorage (storage/supabase.py).  The table holds one row per id  *)
(* (id is the primary key); raw_data is the JSON dump of the dataset.      *)
(***************************************************************************)
\* DatasetMetadata.model_dump(mode='json'): the datetime becomes an ISO
\* string and every DatasetSchema of the schema mapping the dict of its fields
model_dump(m) ==
    [m EXCEPT !.last_updated = <<"iso", m.last_updated>>,
              !.schema = [k \in DOMAIN m.schema |->
                            <<"dict", m.schema[k][2]>>]]

\* mutant: the nested schema stays the dicts that json.loads returned
model_validate_shallow(j) == [j EXCEPT !.last_updated = j.last_updated[2]]

\* DatasetMetadata.model_validate(json.loads(raw_data)): the ISO string is
\* parsed and every dict of the schema mapping becomes a DatasetSchema
model_validate(j) ==
    [j EXCEPT !.last_updated = j.last_updated[2],
              !.schema = [k \in DOMAIN j.schema |->
                            <<"DatasetSchema", j.schema[k][2]>>]]

Row(dataset) ==
    [id |-> dataset.id,
     tags |-> IF dataset.tags # <<>> THEN Some(dataset.tags) ELSE None,
     raw_data |-> model_dump(dataset)]

\* mutant: a plain INSERT per dataset, without the ON CONFLICT clause's update
InsertAll_append(rows, datasets) ==
    rows \o [i \in 1..Len(datasets) |-> Row(datasets[i])]

\* mutant: the writes before the failing one stay
save_datasets_partial(rows, datasets, fails) ==
    IF fails
    THEN [ok |-> FALSE, raised |-> FALSE,
          rows |-> InsertAll_append(rows,
                       SubSeq(datasets, 1, Len(datasets) - 1))]
    ELSE [ok |-> TRUE, raised |-> FALSE,
          rows |-> InsertAll_append(rows, datasets)]

RECURSIVE InsertAll(_, _)
\* INSERT ... ON CONFLICT (id) DO UPDATE, once per dataset of the list
InsertAll(rows, datasets) ==
    IF datasets = <<>> THEN rows
    ELSE InsertAll(DictSet(rows, Row(Head(datasets))), Tail(datasets))

\* mutant: the exception of a failing save is not caught
save_datasets_raises(rows, datasets, fails) ==
    IF fails THEN [ok |-> FALSE, raised |-> TRUE, rows |-> rows]
    ELSE [ok |-> TRUE, raised |-> FALSE, rows |-> InsertAll(rows, datasets)]

\* the transaction commits as a whole or not at all; every exception is
\* caught and reported as False
save_datasets(rows, datasets, fails) ==
    IF fails THEN [ok |-> FALSE, raised |-> FALSE, rows |-> rows]
    ELSE [ok |-> TRUE, raised |-> FALSE, rows |-> InsertAll(rows, datasets)]

\* every exception is caught and reported as the empty list
load_datasets(rows, fails) ==
    IF fails THEN <<>>
    ELSE [i \in 1..Len(rows) |-> model_validate(rows[i].raw_data)]

(***************************************************************************)
(* The orchestrator's configuration (discovery_service.py:37-41), in the   *)
(* dict's insertion order.                                                 *)
(***************************************************************************)
connectors == <<"ine", "aemet", "eurostat">>

Names == Range(connectors)

\* the listings a source can report
Listings(n) ==
    CASE n = "ine" -> {<<RawIPC>>, <<RawIPC, RawEPA>>}
      [] n = "aemet" -> {<<RawIPCw>>, <<>>}
      [] OTHER -> {<<RawGDP>>}

\* every source reports all its datasets
FullListings ==
    [n \in Names |->
        CASE n = "ine" -> <<RawIPC, RawEPA>>
          [] n = "aemet" -> <<RawIPCw>>
          [] OTHER -> <<RawGDP>>]

VARIABLES
    datasets,                \* catalog._datasets
    use_persistent_storage,  \* the constructor's flag
    table,                   \* the rows of the dataset_catalog table
    upstream,                \* the listing each source reports at present
    active_connectors,       \* name -> instance (0: the key is absent)
    session,                 \* instance -> "unborn" (not constructed),
                             \* "none" (no session), "open" or "closed"
    closeCalls,              \* instance -> completed session.close() calls
    scopes,                  \* the "async with service" scopes entered and
                             \* not left: per scope the instances it opened
    now,                     \* the clock
    task,                    \* the refresh_connector task of each name:
                             \* "none", "running", "sleeping" or "done"
    results,                 \* what each task returned
    convCalls,               \* convert_to_standard_metadata calls per name,
                             \* in the current refresh_catalog call
    last,                    \* the latest call and its outcome
    lastEvent,               \* per id, the latest write of the catalog
    limiter,                 \* the state of the limits decorator
    cache,                   \* instance -> the entries of self.cache
    sent                     \* instance -> requests sent to the network

vars == <<datasets, use_persistent_storage, table, upstream,
          active_connectors, session, closeCalls, scopes, now, task,
          results, convCalls, last, lastEvent, limiter, cache, sent>>

Instances == 1..MaxInst

NoTasks == [n \in Names |-> "none"]
NoResults == [n \in Names |-> [raised |-> FALSE, outcome |-> "none", datasets |-> <<>>]]
NoCalls == [n \in Names |-> 0]

Refreshing == \E n \in Names : task[n] # "none"

\* the thread is inside time.sleep: the event loop does not run
Blocked == \E n \in Names : task[n] = "sleeping"

ActiveNames == {n \in Names : active_connectors[n] # 0}

\* the state after DataDiscoveryService(use_persistent_storage)
Constructed(persistent) ==
    /\ datasets = <<>>
    /\ use_persistent_storage = persistent
    /\ table = <<>>
    /\ upstream = FullListings
    /\ active_connectors = [n \in Names |-> 0]
    /\ session = [i \in Instances |-> "unborn"]
    /\ closeCalls = [i \in Instances |-> 0]
    /\ scopes = <<>>
    /\ now = 0
    /\ task = NoTasks
    /\ results = NoResults
    /\ convCalls = NoCalls
    /\ last = [op |-> "init", status |-> "ok"]
    /\ lastEvent = [id \in Ids |-> [kind |-> "absent"]]
    /\ limiter = [last_reset |-> 0, num_calls |-> 0, by |-> 0]
    /\ cache = [i \in Instances |-> <<>>]
    /\ sent = [i \in Instances |-> 0]

\* DataDiscoveryService(): persistence is off by default
Init == Constructed(FALSE)

(***************************************************************************)
(* The inputs of the calls.                                                *)
(***************************************************************************)
Raws == {RawIPC, RawEPA, RawIPCw, RawGDP}

Queries == {<<>>, <<"p">>, <<"R", "A">>, <<"b">>, <<"x">>}

\* the inputs of the calls made on a service
ServiceRaws == {RawEPA, RawIPCw}
ServiceQueries == {<<"p">>}
ServiceTagFilters == {None}

TagFilters == {None, Some(<<>>), Some(<< <<"b">> >>),
               Some(<< <<"P", "a">>, <<"b">> >>), Some(<< <<"p", "a">> >>),
               Some(<< <<"b">>, <<"x">> >>)}

\* the latest write of an id: a value was stored, or the id is absent (never
\* written, or deleted since)
AddEvent(m) == [kind |-> "add", value |-> m]
Absent == [kind |-> "absent"]

RECURSIVE Events(_, _)
\* lastEvent after the writes d[m.id] = m for every m of the list, in order
Events(ev, list) ==
    IF list = <<>> THEN ev
    ELSE Events([ev EXCEPT ![Head(list).id] = AddEvent(Head(list))], Tail(list))

(***************************************************************************)
(* Calls on the catalog by the owner of the service (service.catalog).     *)
(***************************************************************************)
AddDataset(raw) ==
    /\ ~Refreshing
    /\ datasets' = add_dataset(datasets, DatasetMetadata(raw, now))
    /\ lastEvent' = Events(lastEvent, <<DatasetMetadata(raw, now)>>)
    /\ last' = [op |-> "add_dataset", status |-> "ok"]
    /\ UNCHANGED <<limiter, cache, sent,
                   use_persistent_storage, table, upstream, active_connectors,
                   session, closeCalls, scopes, now, task, results, convCalls>>

RemoveDataset(id) ==
    /\ ~Refreshing
    /\ datasets' = remove_dataset(datasets, id)
    /\ lastEvent' = IF DictHas(datasets, id)
                    THEN [lastEvent EXCEPT ![id] = Absent]
                    ELSE lastEvent
    /\ last' = [op |-> "remove_dataset", status |-> "ok", id |-> id,
                present |-> DictHas(datasets, id)]
    /\ UNCHANGED <<limiter, cache, sent,
                   use_persistent_storage, table, upstream, active_connectors,
                   session, closeCalls, scopes, now, task, results, convCalls>>

(***************************************************************************)
(* The environment: time passes, a source changes its listing.             *)
(***************************************************************************)
Tick ==
    /\ ~Refreshing
    /\ now < MaxTime
    /\ now' = now + 1
    /\ UNCHANGED <<limiter, cache, sent,
                   datasets, use_persistent_storage, table, upstream,
                   active_connectors, session, closeCalls, scopes, task,
                   results, convCalls, last, lastEvent>>

UpstreamChange(n) ==
    /\ ~Refreshing
    /\ \E l \in Listings(n) :
          /\ l # upstream[n]
          /\ upstream' = [upstream EXCEPT ![n] = l]
    /\ UNCHANGED <<limiter, cache, sent,
                   datasets, use_persistent_storage, table, active_connectors,
                   session, closeCalls, scopes, now, task, results, convCalls,
                   last, lastEvent>>

(***************************************************************************)
(* DataDiscoveryService.__aenter__ (discovery_service.py:46-61).           *)
(* failAt names the configured connector whose construction or session     *)
(* opening raises ("none": all of them open).  Nothing catches the         *)
(* exception: the loop stops there and the scope is not entered.           *)
(***************************************************************************)
Index(seq, x) == CHOOSE k \in 1..Len(seq) : seq[k] = x

\* the connectors opened before the exception, in order
OpenedBefore(failAt) ==
    IF failAt = "none" THEN connectors
    ELSE SubSeq(connectors, 1, Index(connectors, failAt) - 1)

Used == Cardinality({i \in Instances : session[i] # "unborn"})

RECURSIVE StoreAll(_, _)
\* load_from_storage: self._datasets[dataset.id] = dataset, per loaded dataset
StoreAll(d, loaded) ==
    IF loaded = <<>> THEN d ELSE StoreAll(DictSet(d, Head(loaded)), Tail(loaded))

Enter(failAt, loadFails) ==
    LET opened == OpenedBefore(failAt)
        inst(n) == Used + Index(opened, n)
        loaded == IF use_persistent_storage
                  THEN load_datasets(table, loadFails) ELSE <<>>
    IN  /\ ~Refreshing
        /\ Used + Len(opened) <= MaxInst
        /\ failAt = "none" => Len(scopes) < MaxDepth
        /\ active_connectors' =
              [n \in Names |-> IF n \in Range(opened) THEN inst(n)
                               ELSE active_connectors[n]]
        /\ session' =
              [i \in Instances |->
                  IF i > Used /\ i <= Used + Len(opened) THEN "open"
                  ELSE session[i]]
        /\ IF failAt = "none"
           THEN /\ datasets' = StoreAll(datasets, loaded)
                /\ lastEvent' = Events(lastEvent, loaded)
                /\ scopes' = Append(scopes, {inst(n) : n \in Range(opened)})
                /\ last' = [op |-> "enter", status |-> "ok", failed |-> "none",
                            store |-> IF use_persistent_storage THEN 1 ELSE 0]
           ELSE /\ last' = [op |-> "enter", status |-> "Exception",
                            failed |-> failAt, store |-> 0]
                /\ UNCHANGED <<datasets, lastEvent, scopes>>
        /\ UNCHANGED <<limiter, cache, sent,
                       use_persistent_storage, table, upstream, closeCalls,
                       now, task, results, convCalls>>

(***************************************************************************)
(* DataDiscoveryService.__aexit__ (discovery_service.py:63-72), called     *)
(* when a scope that was entered is left, normally or by an exception.     *)
(* closeFailAt names the active connector whose session.close() raises     *)
(* ("none": every close succeeds).                                         *)
(***************************************************************************)
\* the active connectors closed before the exception
ClosedBefore(closeFailAt) ==
    IF closeFailAt = "none" THEN ActiveNames
    ELSE {n \in ActiveNames :
            Index(connectors, n) < Index(connectors, closeFailAt)}

Exit(closeFailAt, cause) ==
    LET closed == {active_connectors[n] : n \in ClosedBefore(closeFailAt)}
    IN  /\ ~Refreshing
        /\ scopes # <<>>
        /\ closeFailAt \in ActiveNames \cup {"none"}
        /\ session' = [i \in Instances |->
                          IF i \in closed THEN "closed" ELSE session[i]]
        /\ closeCalls' = [i \in Instances |->
                          IF i \in closed THEN closeCalls[i] + 1
                          ELSE closeCalls[i]]
        /\ active_connectors' =
              IF closeFailAt = "none" THEN [n \in Names |-> 0]
              ELSE active_connectors
        /\ scopes' = SubSeq(scopes, 1, Len(scopes) - 1)
        /\ last' = [op |-> "exit",
                    status |-> IF closeFailAt = "none" THEN "ok"
                               ELSE "Exception",
                    cause |-> cause,
                    opened |-> scopes[Len(scopes)]]
        /\ UNCHANGED <<limiter, cache, sent,
                       datasets, use_persistent_storage, table, upstream, now,
                       task, results, convCalls, lastEvent>>

(***************************************************************************)
(* DataDiscoveryService.refresh_catalog (discovery_service.py:74-102).     *)
(* The call checks the guard and hands one refresh_connector coroutine per *)
(* active connector to asyncio.gather, which starts them all; each         *)
(* finishes at its own time; the call resumes when gather has every        *)
(* result, merges them in the order of the tasks and saves.                *)
(***************************************************************************)
\* what the call that came right before this one merged, when that call was
\* a refresh_catalog too
PreviousRefresh ==
    IF last.op = "refresh_catalog" /\ last.status = "ok"
    THEN Some(last.all) ELSE None

RefreshCatalog ==
    /\ ~Refreshing
    /\ results' = NoResults
    /\ IF ActiveNames = {}
       THEN /\ last' = [op |-> "refresh_catalog", status |-> "RuntimeError",
                        inScope |-> scopes # <<>>, saves |-> 0]
            /\ task' = task
            /\ convCalls' = NoCalls
       ELSE /\ last' = [op |-> "refresh_catalog", status |-> "pending",
                        inScope |-> scopes # <<>>, saves |-> 0,
                        previous |-> PreviousRefresh, lastDone |-> "none",
                        failAt |-> 0]
            /\ task' = [n \in Names |->
                          IF n \in ActiveNames THEN "running" ELSE "none"]
            /\ convCalls' = [n \in Names |->
                          IF n \in ActiveNames THEN 1 ELSE 0]
    /\ UNCHANGED <<limiter, cache, sent,
                   datasets, use_persistent_storage, table, upstream,
                   active_connectors, session, closeCalls, scopes, now,
                   lastEvent>>

\* mutant: no try/except around the conversion
refresh_connector_reraise(outcome, converted) ==
    IF outcome = "raise"
    THEN [raised |-> TRUE, outcome |-> outcome, datasets |-> <<>>]
    ELSE [raised |-> FALSE, outcome |-> outcome, datasets |-> converted]

\* refresh_connector (discovery_service.py:104-124): the list the conversion
\* returned, or the empty list when it raised
refresh_connector(outcome, converted) ==
    IF outcome = "raise"
    THEN [raised |-> FALSE, outcome |-> outcome, datasets |-> <<>>]
    ELSE [raised |-> FALSE, outcome |-> outcome, datasets |-> converted]

\* what the conversion of connector n builds from the source's listing
Converted(n) ==
    [i \in 1..Len(upstream[n]) |-> DatasetMetadata(upstream[n][i], now)]

ConvFinish(n, outcome) ==
    /\ task[n] = "running"
    /\ ~Blocked
    /\ task' = [task EXCEPT ![n] = "done"]
    /\ results' = [results EXCEPT ![n] = refresh_connector(outcome, Converted(n))]
    /\ last' = [last EXCEPT !.lastDone = n, !.failAt = 0]
    /\ UNCHANGED <<limiter, cache, sent,
                   datasets, use_persistent_storage, table, upstream,
                   active_connectors, session, closeCalls, scopes, now,
                   convCalls, lastEvent>>

\* mutant: the call resumes with the first result (FIRST_COMPLETED)
GatherFirstCompleted ==
    /\ Refreshing
    /\ \E n \in Names : task[n] = "done"

\* await asyncio.gather(*refresh_tasks) resumes the call
GatherComplete ==
    /\ Refreshing
    /\ \A n \in Names : task[n] \in {"none", "done"}

\* mutant: the results are merged from the last connector to the first
FlattenReversed(res, names) ==
    LET part(k) == IF task[names[k]] = "done" THEN res[names[k]].datasets
                   ELSE <<>>
    IN  part(3) \o part(2) \o part(1)

RECURSIVE Flatten(_, _)
\* the datasets of all_datasets, in iteration order (lines 92-93)
Flatten(res, names) ==
    IF names = <<>> THEN <<>>
    ELSE (IF task[Head(names)] = "done" THEN res[Head(names)].datasets
          ELSE <<>>) \o Flatten(res, Tail(names))

\* a list of datasets without their timestamps
Undated(list) == [i \in 1..Len(list) |-> [list[i] EXCEPT !.last_updated = 0]]

\* mutant: the loops over all_datasets end after the first dataset
MergeFirstOnly(acc, all) ==
    IF all = <<>> THEN acc
    ELSE [datasets |-> add_dataset(acc.datasets, Head(all)),
          total_datasets |-> acc.total_datasets + 1]

RECURSIVE MergeAll(_, _)
\* self.catalog.add_dataset(dataset); total_datasets += 1, for every dataset
\* (lines 91-95); acc is the catalog and the count so far
MergeAll(acc, all) ==
    IF all = <<>> THEN acc
    ELSE MergeAll([datasets |-> add_dataset(acc.datasets, Head(all)),
                   total_datasets |-> acc.total_datasets + 1], Tail(all))

RefreshComplete(saveFails) ==
    LET all == Flatten(results, connectors)
        update == MergeAll([datasets |-> datasets, total_datasets |-> 0], all)
        merged == update.datasets
        saved == save_datasets(table, list_datasets(merged), saveFails)
    IN  /\ GatherComplete
        /\ task' = NoTasks
        /\ results' = NoResults
        /\ IF \E n \in Names : results[n].raised
           THEN /\ last' = [op |-> "refresh_catalog", status |-> "Exception",
                            inScope |-> last.inScope, saves |-> 0]
                /\ UNCHANGED <<datasets, table, lastEvent>>
           ELSE /\ datasets' = merged
                /\ lastEvent' = Events(lastEvent, all)
                /\ table' = IF use_persistent_storage THEN saved.rows
                            ELSE table
                /\ last' = [op |-> "refresh_catalog",
                            status |-> IF use_persistent_storage /\ saved.raised
                                       THEN "Exception" ELSE "ok",
                            inScope |-> last.inScope,
                            saves |-> IF use_persistent_storage THEN 1 ELSE 0,
                            saveOk |-> use_persistent_storage => saved.ok,
                            saveFails |-> saveFails,
                            connectors |-> {n \in Names : task[n] # "none"},
                            failed |-> {n \in Names :
                                          results[n].outcome = "raise"},
                            adds |-> update.total_datasets,
                            lastDone |-> last.lastDone,
                            all |-> Undated(all),
                            repeats |-> last.previous = Some(Undated(all)),
                            exact |-> merged = datasets]
        /\ UNCHANGED <<limiter, cache, sent,
                       use_persistent_storage, upstream, active_connectors,
                       session, closeCalls, scopes, now, convCalls>>

(***************************************************************************)
(* The query operations of the service (discovery_service.py:126-143):     *)
(* each delegates to the catalog.                                          *)
(***************************************************************************)
service_search_datasets(query, tags) ==
    [status |-> "ok", value |-> search_datasets(datasets, query, tags)]

get_dataset_metadata(name) == get_dataset(datasets, name)

\* mutant: a query drops what the catalog holds (a read that consumes)
QueryConsuming(op, args, outcome) ==
    /\ ~Refreshing
    /\ datasets' = <<>>
    /\ last' = [op |-> op, args |-> args, status |-> outcome.status,
                value |-> outcome.value, inScope |-> scopes # <<>>]
    /\ UNCHANGED <<limiter, cache, sent,
                   use_persistent_storage, table, upstream,
                   active_connectors, session, closeCalls, scopes, now, task,
                   results, convCalls, lastEvent>>

\* mutant: the query is guarded like refresh_catalog
list_all_datasets_guarded ==
    IF ActiveNames = {}
    THEN [status |-> "RuntimeError", value |-> <<>>]
    ELSE [status |-> "ok", value |-> list_datasets(datasets)]

list_all_datasets == [status |-> "ok", value |-> list_datasets(datasets)]

Query(op, args, outcome) ==
    /\ ~Refreshing
    /\ last' = [op |-> op, args |-> args, status |-> outcome.status,
                value |-> outcome.value, inScope |-> scopes # <<>>]
    /\ UNCHANGED <<limiter, cache, sent,
                   datasets, use_persistent_storage, table, upstream,
                   active_connectors, session, closeCalls, scopes, now, task,
                   results, convCalls, lastEvent>>

SearchDatasets(query, tags) ==
    Query("search_datasets", <<query, tags>>,
          service_search_datasets(query, tags))

GetDatasetMetadata(name) ==
    Query("get_dataset_metadata", <<name>>, get_dataset_metadata(name))

ListAllDatasets ==
    Query("list_all_datasets", <<>>, list_all_datasets)

(***************************************************************************)
(* BaseConnector._make_request (connectors/base.py:32-71).  The clock      *)
(* counts ticks, TicksPerSecond to the second.  The limits decorator is    *)
(* applied once, to the function of the base class: its state (the start   *)
(* of the window and the calls counted in it) is one object for every      *)
(* instance of every connector class, created when base.py is imported.    *)
(* It counts calls in windows of `period` seconds that start at a call     *)
(* and raises when the window is full; sleep_and_retry sleeps until the    *)
(* window ends (time.sleep, during which no task runs) and calls again.    *)
(* Both wrap the call of the coroutine function, so they run before the    *)
(* body and its cache lookup.                                              *)
(***************************************************************************)
calls == 1
period == 1
ttl == 3600
maxsize == 100
rate_limit == [ine |-> 100, aemet |-> 30, eurostat |-> 50]
\* rate_limit counts requests per minute
RateWindowSeconds == 60

\* the wrapper of limits(calls, period), called at time t
limits(lim, t) ==
    LET period_remaining == period * TicksPerSecond - (t - lim.last_reset)
        window == IF period_remaining <= 0
                  THEN [lim EXCEPT !.num_calls = 0, !.last_reset = t]
                  ELSE lim
        counted == [window EXCEPT !.num_calls = @ + 1]
    IN  [limiter |-> counted,
         admitted |-> counted.num_calls <= calls,
         period_remaining |-> period_remaining]

\* the wrapper of sleep_and_retry, called at time t: the limiter after the
\* call was admitted and the time of the admission
sleep_and_retry(lim, t) ==
    LET first == limits(lim, t)
        wake == t + first.period_remaining
        again == limits(first.limiter, wake)
    IN  IF first.admitted THEN [limiter |-> first.limiter, at |-> t]
        ELSE [limiter |-> again.limiter, at |-> wake]

\* str(params): None, or the items of the dict in insertion order
str(params) ==
    IF params = None THEN <<"None">>
    ELSE <<"{">> \o [k \in 1..(2 * Len(params[1])) |->
                        params[1][(k + 1) \div 2][2 - (k % 2)]] \o <<"}">>

\* cache_key = f"{endpoint}:{str(params)}" (line 41)
cache_key(endpoint, params) == <<endpoint, ":">> \o str(params)

\* mutant: an entry never expires
Live_forever(e, t) == TRUE

\* an entry of the TTLCache is there until its time to live has passed
Live(e, t) == t < e.stored + ttl * TicksPerSecond

\* mutant: the lookup never finds the key
cache_contains_never(c, key, t) == FALSE

\* cache_key in self.cache (line 42)
cache_contains(c, key, t) ==
    \E k \in 1..Len(c) : c[k].key = key /\ Live(c[k], t)

\* self.cache[cache_key] (line 44)
cache_get(c, key) == c[CHOOSE k \in 1..Len(c) : c[k].key = key].payload

\* the cache after self.cache[cache_key] was read: the entries are kept from
\* the least to the most recently used, and a read makes its entry the most
\* recently used
cache_touch(c, key) ==
    SelectSeq(c, LAMBDA e : e.key # key) \o SelectSeq(c, LAMBDA e : e.key = key)

\* mutant: a cache without a size limit
cache_set_unbounded(c, key, data, t) ==
    Append(SelectSeq(c, LAMBDA e : Live(e, t) /\ e.key # key),
           [key |-> key, payload |-> data, stored |-> t])

\* self.cache[cache_key] = data (line 67): expired entries go; a new key
\* that finds the cache full evicts the least recently used entries until
\* there is room; the key is written as the most recently used
cache_set(c, key, data, t) ==
    LET live == SelectSeq(c, LAMBDA e : Live(e, t))
        others == SelectSeq(live, LAMBDA e : e.key # key)
        kept == IF Len(others) < Len(live) \/ Len(live) < maxsize
                THEN others
                ELSE SubSeq(live, Len(live) - maxsize + 2, Len(live))
    IN  Append(kept, [key |-> key, payload |-> data, stored |-> t])

\* the key that self.cache[cache_key] = data evicts although its entry has
\* not expired, if any
evicted(c, key, t) ==
    LET live == SelectSeq(c, LAMBDA e : Live(e, t))
    IN  IF (\A e \in Range(live) : e.key # key) /\ Len(live) >= maxsize
        THEN Some(Head(live).key) ELSE None

\* the empty mapping {}
Empty == [kind |-> "dict", data |-> 0]

\* what the server answers: a JSON mapping, or the request fails
Responses == {[kind |-> "json", data |-> 1], [kind |-> "json", data |-> 2],
              [kind |-> "ClientError"]}

\* the body of _make_request on instance i at time t (lines 36-71)
make_request(i, endpoint, params, resp, t) ==
    LET key == cache_key(endpoint, params)
        miss == [status |-> "ok", value |-> Empty, cache |-> cache[i],
                 hit |-> FALSE, network |-> TRUE, error |-> "none"]
    IN  IF session[i] = "none"
        THEN [miss EXCEPT !.status = "RuntimeError", !.network = FALSE,
                          !.error = "must be used as async context manager"]
        ELSE IF cache_contains(cache[i], key, t)
        THEN [miss EXCEPT !.value = [kind |-> "dict",
                                     data |-> cache_get(cache[i], key)],
                          !.cache = cache_touch(cache[i], key),
                          !.hit = TRUE, !.network = FALSE]
        ELSE IF session[i] = "closed"
        THEN [miss EXCEPT !.status = "RuntimeError", !.network = FALSE,
                          !.error = "Session is closed"]
        ELSE IF resp.kind = "TimeoutError"
        THEN [miss EXCEPT !.status = "TimeoutError"]
        ELSE IF resp.kind = "json"
        THEN [miss EXCEPT !.value = [kind |-> "dict", data |-> resp.data],
                          !.cache = cache_set(cache[i], key, resp.data, t)]
        ELSE miss

\* the start times of the calls that came one after the other on the same
\* instance with the same key, this call included (the latest three)
Starts(i, key) ==
    LET before == IF last.op = "fetch" /\ last.inst = i /\ last.key = key
                  THEN last.starts ELSE <<>>
        all == Append(before, now)
    IN  IF Len(all) > 3 THEN Tail(all) ELSE all

\* a call of _make_request on the active connector n, made at time now; the
\* call returns at most at time limit
Fetch(n, endpoint, params, resp, limit) ==
    LET i == active_connectors[n]
        gate == sleep_and_retry(limiter, now)
        r == make_request(i, endpoint, params, resp, gate.at)
    IN  /\ ~Refreshing
        /\ i # 0
        /\ gate.at <= limit
        /\ now' = gate.at
        /\ limiter' = [gate.limiter EXCEPT !.by = i]
        /\ cache' = [cache EXCEPT ![i] = r.cache]
        /\ sent' = [sent EXCEPT ![i] = @ + (IF r.network THEN 1 ELSE 0)]
        /\ last' = [op |-> "fetch", status |-> r.status, value |-> r.value,
                    name |-> n, inst |-> i,
                    key |-> cache_key(endpoint, params),
                    started |-> now, finished |-> gate.at,
                    hit |-> r.hit, network |-> r.network,
                    blockedBy |-> IF gate.at > now THEN limiter.by ELSE 0,
                    slot |-> gate.limiter # limiter,
                    starts |-> Starts(i, cache_key(endpoint, params))]
        /\ UNCHANGED <<datasets, use_persistent_storage, table, upstream,
                       active_connectors, session, closeCalls, scopes, task,
                       results, convCalls, lastEvent>>

\* time passes
Elapse(d, limit) ==
    /\ ~Refreshing
    /\ now + d <= limit
    /\ now' = now + d
    /\ UNCHANGED <<datasets, use_persistent_storage, table, upstream,
                   active_connectors, session, closeCalls, scopes, task,
                   results, convCalls, last, lastEvent, limiter, cache, sent>>

(***************************************************************************)
(* A connector used by a caller of its own, as in                          *)
(* `async with INEConnector() as conn` (tests/data_discovery): the caller  *)
(* constructs it, enters and leaves its scope and calls its methods.       *)
(***************************************************************************)
\* what the server can answer to a GET: a JSON mapping, a connection that
\* fails (aiohttp.ClientError), a status that is not 2xx (raise_for_status
\* raises ClientResponseError, a ClientError), no answer within the session's
\* total timeout (asyncio.TimeoutError, which is no ClientError), a body that
\* is no JSON, a JSON body that is a number
AllResponses ==
    Responses \cup {[kind |-> "status"], [kind |-> "TimeoutError"],
                    [kind |-> "badjson"], [kind |-> "scalar", data |-> 1]}

\* INEConnector(): BaseConnector.__init__ (base.py:14-20) leaves the session
\* unset
ConnectorNew ==
    /\ ~Refreshing
    /\ Used < MaxConn
    /\ session' = [session EXCEPT ![Used + 1] = "none"]
    /\ last' = [op |-> "new", status |-> "ok", inst |-> Used + 1]
    /\ UNCHANGED <<datasets, use_persistent_storage, table, upstream,
                   active_connectors, closeCalls, scopes, now, task, results,
                   convCalls, lastEvent, limiter, cache, sent>>

\* BaseConnector.__aenter__ (base.py:22-25): a new ClientSession
aenter(s) == "open"

\* mutant: the session is closed only when the scope is left normally
aexit_normal_only(s, cause) ==
    IF s # "none" /\ cause = "normal" THEN "closed" ELSE s

\* BaseConnector.__aexit__ (base.py:27-30): the session, when there is one,
\* is closed, whatever ended the scope
aexit(s, cause) == IF s # "none" THEN "closed" ELSE s

\* the caller enters the scope of connector i, which is not in a scope
ConnectorEnter(i) ==
    /\ ~Refreshing
    /\ session[i] \in {"none", "closed"}
    /\ closeCalls[i] < MaxScopes
    /\ session' = [session EXCEPT ![i] = aenter(@)]
    /\ last' = [op |-> "aenter", status |-> "ok", inst |-> i]
    /\ UNCHANGED <<datasets, use_persistent_storage, table, upstream,
                   active_connectors, closeCalls, scopes, now, task, results,
                   convCalls, lastEvent, limiter, cache, sent>>

\* the scope of connector i is left, normally or by an exception
ConnectorExit(i, cause) ==
    /\ ~Refreshing
    /\ session[i] = "open"
    /\ session' = [session EXCEPT ![i] = aexit(@, cause)]
    /\ closeCalls' = [closeCalls EXCEPT ![i] = @ + 1]
    /\ last' = [op |-> "aexit", status |-> "ok", inst |-> i, cause |-> cause]
    /\ UNCHANGED <<datasets, use_persistent_storage, table, upstream,
                   active_connectors, scopes, now, task, results, convCalls,
                   lastEvent, limiter, cache, sent>>

\* a call of _make_request on the caller's connector i, made at time now by
\* the method `method` with the arguments args; the call returns at most at
\* time limit
Request(i, method, args, endpoint, params, resp, limit) ==
    LET gate == sleep_and_retry(limiter, now)
        r == make_request(i, endpoint, params, resp, gate.at)
    IN  /\ ~Refreshing
        /\ session[i] # "unborn"
        /\ gate.at <= limit
        /\ now' = gate.at
        /\ limiter' = [gate.limiter EXCEPT !.by = i]
        /\ cache' = [cache EXCEPT ![i] = r.cache]
        /\ sent' = [sent EXCEPT ![i] = @ + (IF r.network THEN 1 ELSE 0)]
        /\ last' = [op |-> "request", status |-> r.status, value |-> r.value,
                    method |-> method, args |-> args, inst |-> i,
                    endpoint |-> endpoint, params |-> params,
                    key |-> cache_key(endpoint, params), resp |-> resp.kind,
                    open |-> session[i] = "open",
                    expired |-> \E e \in Range(cache[i]) :
                                   /\ e.key = cache_key(endpoint, params)
                                   /\ ~Live(e, gate.at),
                    started |-> now, finished |-> gate.at,
                    hit |-> r.hit, network |-> r.network, error |-> r.error,
                    evicted |-> IF r.cache # cache[i] /\ ~r.hit
                                THEN evicted(cache[i], cache_key(endpoint, params),
                                             gate.at)
                                ELSE None]
        /\ UNCHANGED <<datasets, use_persistent_storage, table, upstream,
                       active_connectors, session, closeCalls, scopes, task,
                       results, convCalls, lastEvent>>

\* a call of _make_request on the active connector n of a service
ServiceRequest(n, endpoint, params, resp, limit) ==
    /\ active_connectors[n] # 0
    /\ Request(active_connectors[n], "_make_request", <<>>, endpoint, params,
               resp, limit)

\* INEConnector.get_metadata (ine.py:17-19): the listing of the operations,
\* as _make_request returns it
GetMetadata(i, resp, limit) ==
    Request(i, "get_metadata", <<>>, "OPERACIONES", None, resp, limit)

(***************************************************************************)
(* INEConnector.get_dataset_data (ine.py:90-155).  A date argument is a    *)
(* datetime or a string that is already formatted; the values of the       *)
(* parameters are numbers or texts (sequences of characters).              *)
(***************************************************************************)
Digit(n) == <<"0", "1", "2", "3", "4", "5", "6", "7", "8", "9">>[n + 1]

\* the decimal digits of n, padded with zeros to width characters
Pad(n, width) ==
    [k \in 1..width |-> Digit((n \div (10 ^ (width - k))) % 10)]

\* datetime.strftime("%Y%m%d")
strftime(d) == Pad(d.year, 4) \o Pad(d.month, 2) \o Pad(d.day, 2)

\* lines 117-121 and 124-128: a datetime is formatted, a string is taken as
\* it is
date_text(d) == IF d.type = "datetime" THEN strftime(d) ELSE d.text

\* lines 141-147
tip(friendly_format, include_metadata) ==
    (IF friendly_format THEN <<"A">> ELSE <<>>)
        \o (IF include_metadata THEN <<"M">> ELSE <<>>)

\* mutant: a date range takes precedence over last_n
get_dataset_data_params_date_first(start_date, end_date, last_n, opts) ==
    IF start_date # None THEN << <<"date", date_text(start_date[1])>> >>
    ELSE IF last_n # None THEN << <<"nult", last_n[1]>> >>
    ELSE <<>>

\* the params dict of get_dataset_data, as the list of its items (lines
\* 110-147)
get_dataset_data_params(start_date, end_date, last_n, opts) ==
    (IF last_n # None THEN << <<"nult", last_n[1]>> >>
     ELSE IF start_date # None
     THEN << <<"date",
               IF end_date # None
               THEN date_text(start_date[1]) \o <<":">> \o date_text(end_date[1])
               ELSE date_text(start_date[1])>> >>
     ELSE <<>>)
    \o (IF opts.periodicity # None THEN << <<"p", opts.periodicity[1]>> >>
        ELSE <<>>)
    \o (IF opts.detail_level # None THEN << <<"det", opts.detail_level[1]>> >>
        ELSE <<>>)
    \o (IF opts.friendly_format \/ opts.include_metadata
        THEN << <<"tip", tip(opts.friendly_format, opts.include_metadata)>> >>
        ELSE <<>>)

\* get_dataset_data("IPC", ...) on the caller's connector i
GetDatasetData(i, start_date, end_date, last_n, opts, resp, limit) ==
    Request(i, "get_dataset_data", <<start_date, end_date, last_n, opts>>,
            "DATOS_SERIE/IPC",
            Some(get_dataset_data_params(start_date, end_date, last_n, opts)),
            resp, limit)

(***************************************************************************)
(* The conversions of a refresh in steps.  A conversion that fetches       *)
(* (INEConnector: the listing, then the schema of each operation) calls    *)
(* _make_request; the limiter admits the call or puts the thread to sleep  *)
(* with time.sleep until the window ends.  While the thread sleeps the     *)
(* event loop does not run: no other coroutine takes a step.               *)
(***************************************************************************)
\* the conversion of connector n calls _make_request at time now
ConvFetch(n, resp, limit) ==
    LET i == active_connectors[n]
        first == limits(limiter, now)
        r == make_request(i, "OPERACIONES", None, resp, now)
    IN  /\ task[n] = "running"
        /\ ~Blocked
        /\ IF first.admitted
           THEN /\ limiter' = [first.limiter EXCEPT !.by = i]
                /\ cache' = [cache EXCEPT ![i] = r.cache]
                /\ sent' = [sent EXCEPT ![i] = @ + (IF r.network THEN 1 ELSE 0)]
                /\ task' = task
           ELSE /\ now + first.period_remaining <= limit
                /\ limiter' = first.limiter
                /\ task' = [task EXCEPT ![n] = "sleeping"]
                /\ UNCHANGED <<cache, sent>>
        /\ UNCHANGED <<datasets, use_persistent_storage, table, upstream,
                       active_connectors, session, closeCalls, scopes, now,
                       results, convCalls, last, lastEvent>>

\* time.sleep(period_remaining) returns: the call is made again and admitted
ConvWake(n, resp) ==
    LET i == active_connectors[n]
        wake == limiter.last_reset + period * TicksPerSecond
        again == limits(limiter, wake)
        r == make_request(i, "OPERACIONES", None, resp, wake)
    IN  /\ task[n] = "sleeping"
        /\ now' = wake
        /\ limiter' = [again.limiter EXCEPT !.by = i]
        /\ cache' = [cache EXCEPT ![i] = r.cache]
        /\ sent' = [sent EXCEPT ![i] = @ + (IF r.network THEN 1 ELSE 0)]
        /\ task' = [task EXCEPT ![n] = "running"]
        /\ UNCHANGED <<datasets, use_persistent_storage, table, upstream,
                       active_connectors, session, closeCalls, scopes,
                       results, convCalls, last, lastEvent>>

\* a list without its k-th element
Without(list, k) == SubSeq(list, 1, k - 1) \o SubSeq(list, k + 1, Len(list))

\* convert_to_standard_metadata of connector n at time t, when processing
\* the dataset at position failAt of the listing raises.  INEConnector has a
\* try/except inside the loop (ine.py:50-81): the dataset is left out and the
\* loop goes on.  AEMETConnector and EurostatConnector have only the
\* try/except around the loop (aemet.py:131-168, eurostat.py:137-174): the
\* loop ends there and the datasets appended so far are returned.
convert_to_standard_metadata(n, listing, failAt, t) ==
    LET all == [k \in 1..Len(listing) |-> DatasetMetadata(listing[k], t)]
    IN  IF n = "ine" THEN Without(all, failAt)
        ELSE SubSeq(all, 1, failAt - 1)

\* the conversion of connector n returns after the processing of the dataset
\* at position failAt has raised
ConvSkip(n, failAt) ==
    /\ task[n] = "running"
    /\ ~Blocked
    /\ failAt \in 1..Len(upstream[n])
    /\ task' = [task EXCEPT ![n] = "done"]
    /\ results' = [results EXCEPT ![n] =
          refresh_connector("return",
              convert_to_standard_metadata(n, upstream[n], failAt, now))]
    /\ last' = [last EXCEPT !.lastDone = n, !.failAt = failAt]
    /\ UNCHANGED <<limiter, cache, sent,
                   datasets, use_persistent_storage, table, upstream,
                   active_connectors, session, closeCalls, scopes, now,
                   convCalls, lastEvent>>

\* the source of connector n reports the listing l
UpstreamReports(n, l) ==
    /\ ~Refreshing
    /\ l # upstream[n]
    /\ upstream' = [upstream EXCEPT ![n] = l]
    /\ UNCHANGED <<limiter, cache, sent,
                   datasets, use_persistent_storage, table, active_connectors,
                   session, closeCalls, scopes, now, task, results, convCalls,
                   last, lastEvent>>

(***************************************************************************)
(* Calls on the catalog's persistence by the owner of the service          *)
(* (service.catalog.load_from_storage / save_to_storage, catalog.py:13-27).*)
(* Both return at once when persistence is off; store counts the calls     *)
(* made on the storage.                                                    *)
(***************************************************************************)
LoadFromStorage(loadFails) ==
    LET loaded == IF use_persistent_storage
                  THEN load_datasets(table, loadFails) ELSE <<>>
    IN  /\ ~Refreshing
        /\ datasets' = StoreAll(datasets, loaded)
        /\ lastEvent' = Events(lastEvent, loaded)
        /\ last' = [op |-> "load_from_storage", status |-> "ok",
                    store |-> IF use_persistent_storage THEN 1 ELSE 0,
                    fails |-> loadFails]
        /\ UNCHANGED <<limiter, cache, sent,
                       use_persistent_storage, table, upstream,
                       active_connectors, session, closeCalls, scopes, now,
                       task, results, convCalls>>

\* a save_to_storage that does not look at the persistence flag
SaveToStorage_unguarded(saveFails) ==
    LET saved == save_datasets(table, list_datasets(datasets), saveFails)
    IN  /\ ~Refreshing
        /\ table' = saved.rows
        /\ last' = [op |-> "save_to_storage", status |-> "ok", store |-> 1,
                    saveOk |-> saved.ok, fails |-> saveFails]
        /\ UNCHANGED <<limiter, cache, sent,
                       datasets, use_persistent_storage, upstream,
                       active_connectors, session, closeCalls, scopes, now,
                       task, results, convCalls, lastEvent>>

SaveToStorage(saveFails) ==
    LET saved == save_datasets(table, list_datasets(datasets), saveFails)
    IN  /\ ~Refreshing
        /\ table' = IF use_persistent_storage THEN saved.rows ELSE table
        /\ last' = [op |-> "save_to_storage",
                    status |-> IF use_persistent_storage /\ saved.raised
                               THEN "Exception" ELSE "ok",
                    store |-> IF use_persistent_storage THEN 1 ELSE 0,
                    saveOk |-> use_persistent_storage => saved.ok,
                    fails |-> saveFails]
        /\ UNCHANGED <<limiter, cache, sent,
                       datasets, use_persistent_storage, upstream,
                       active_connectors, session, closeCalls, scopes, now,
                       task, results, convCalls, lastEvent>>

(***************************************************************************)
(* SupabaseStorage used directly (storage/supabase.py:74-212).  A save     *)
(* whose write fails is rolled back with its transaction; conn.close()     *)
(* runs after the commit, and its failure is reported as False too.  The   *)
(* SELECT of a load has no ORDER BY: the rows come in any order.           *)
(***************************************************************************)
MaxList == 2    \* longest list handed to save_datasets

\* the datasets handed to the storage
Saved == {DatasetMetadata(RawIPC, 0), DatasetMetadata(RawIPCw, 1),
          DatasetMetadata(RawEPA, 0), DatasetMetadata(RawGDP, 1)}

SavedLists == UNION {[1..n -> Saved] : n \in 0..MaxList}

Reversed(list) == [i \in 1..Len(list) |-> list[Len(list) + 1 - i]]

StorageSave(list, fails, closeFails) ==
    LET saved == save_datasets(table, list, fails)
    IN  /\ table' = saved.rows
        /\ last' = [op |-> "save_datasets",
                    ok |-> saved.ok /\ ~closeFails,
                    list |-> list, before |-> table,
                    fails |-> fails, closeFails |-> closeFails]
        /\ UNCHANGED <<limiter, cache, sent,
                       datasets, use_persistent_storage, upstream,
                       active_connectors, session, closeCalls, scopes, now,
                       task, results, convCalls, lastEvent>>

StorageLoad(fails, reversed) ==
    LET rows == IF reversed THEN Reversed(table) ELSE table
    IN  /\ last' = [op |-> "load_datasets",
                    loaded |-> load_datasets(rows, fails),
                    fails |-> fails,
                    saved |-> IF /\ last.op = "save_datasets"
                                 /\ last.ok
                                 /\ last.before = <<>>
                              THEN Some(last.list) ELSE None]
        /\ UNCHANGED <<limiter, cache, sent,
                       datasets, use_persistent_storage, table, upstream,
                       active_connectors, session, closeCalls, scopes, now,
                       task, results, convCalls, lastEvent>>

StorageClear(fails) ==
    /\ table' = IF fails THEN table ELSE <<>>
    /\ last' = [op |-> "clear_datasets", ok |-> ~fails]
    /\ UNCHANGED <<limiter, cache, sent,
                   datasets, use_persistent_storage, upstream,
                   active_connectors, session, closeCalls, scopes, now,
                   task, results, convCalls, lastEvent>>

(***************************************************************************)
(* DataDiscoveryService.add_connector (discovery_service.py:145-154), a    *)
(* classmethod that writes cls.connectors.  The class defines no such      *)
(* attribute: the dict of connector classes is set on each instance by     *)
(* __init__ (37-41).  classAttr tells whether the caller has given the     *)
(* class an attribute of that name before the call, as the repository's    *)
(* test does; the instance's own dict, which __aenter__ reads, is the      *)
(* same in both cases.                                                     *)
(***************************************************************************)
AddConnector(name, classAttr) ==
    /\ ~Refreshing
    /\ last' = [op |-> "add_connector",
                status |-> IF classAttr THEN "ok" ELSE "AttributeError",
                name |-> name,
                registry |-> IF classAttr THEN {name} ELSE {}]
    /\ UNCHANGED <<limiter, cache, sent,
                   datasets, use_persistent_storage, table, upstream,
                   active_connectors, session, closeCalls, scopes, now,
                   task, results, convCalls, lastEvent>>

(***************************************************************************)
(* The specifications.                                                     *)
(*                                                                         *)
(* Spec: a default-constructed service used through its whole life cycle,  *)
(* with connectors that fail to open, to close and to convert.             *)
(* SpecRefresh: a service whose connectors open and close, refreshed       *)
(* again and again while time passes and the sources change.               *)
(* SpecCatalog: the catalog of a service, written and queried directly.    *)
(***************************************************************************)
RefreshSteps ==
    \/ RefreshCatalog
    \/ \E n \in Names : \E outcome \in {"return", "raise"} : ConvFinish(n, outcome)
    \/ \E saveFails \in IF use_persistent_storage THEN BOOLEAN ELSE {FALSE} :
          RefreshComplete(saveFails)

Next ==
    \/ \E raw \in ServiceRaws : AddDataset(raw)
    \/ \E id \in Ids : RemoveDataset(id)
    \/ UpstreamChange("ine")
    \/ \E failAt \in Names \cup {"none"} :
          \E loadFails \in IF use_persistent_storage THEN BOOLEAN ELSE {FALSE} :
             Enter(failAt, loadFails)
    \/ \E closeFailAt \in Names \cup {"none"} :
          \E cause \in {"normal", "exception"} : Exit(closeFailAt, cause)
    \/ RefreshSteps
    \/ \E query \in ServiceQueries : \E tags \in ServiceTagFilters :
          SearchDatasets(query, tags)
    \/ \E name \in Ids : GetDatasetMetadata(name)
    \/ ListAllDatasets

Spec == Init /\ [][Next]_vars

NextRefresh ==
    \/ Tick
    \/ \E n \in Names : UpstreamChange(n)
    \/ \E id \in Ids : RemoveDataset(id)
    \/ Enter("none", FALSE)
    \/ \E cause \in {"normal", "exception"} : Exit("none", cause)
    \/ RefreshSteps

SpecRefresh == Init /\ [][NextRefresh]_vars

NextCatalog ==
    \/ Tick
    \/ \E raw \in Raws : AddDataset(raw)
    \/ \E id \in Ids : RemoveDataset(id)
    \/ \E query \in Queries : \E tags \in TagFilters : SearchDatasets(query, tags)
    \/ \E name \in Ids : GetDatasetMetadata(name)
    \/ ListAllDatasets

SpecCatalog == Init /\ [][NextCatalog]_vars

\* the calls made on the connectors of a service
Endpoints == {"OPERACIONES", "Search"}
Params == {None, Some(<< <<"q", "a">> >>)}

NextFetch ==
    \/ Enter("none", FALSE)
    \/ Elapse(1, MaxFetchSeconds * TicksPerSecond)
    \/ \E resp \in Responses :
          \/ Fetch("ine", "OPERACIONES", None, resp,
                   MaxFetchSeconds * TicksPerSecond)
          \/ Fetch("ine", "Search", Some(<< <<"q", "a">> >>), resp,
                   MaxFetchSeconds * TicksPerSecond)
          \/ Fetch("aemet", "OPERACIONES", None, resp,
                   MaxFetchSeconds * TicksPerSecond)

SpecFetch == Init /\ [][NextFetch]_vars

\* calls made one right after the other on two connectors of a service
NextRate ==
    \/ Enter("none", FALSE)
    \/ Fetch("aemet", "OPERACIONES", None, [kind |-> "ClientError"],
             MaxRateSeconds * TicksPerSecond)
    \/ Fetch("eurostat", "OPERACIONES", None, [kind |-> "json", data |-> 1],
             MaxRateSeconds * TicksPerSecond)

SpecRate == Init /\ [][NextRate]_vars

\* the connectors of a caller: their scopes and their requests, before,
\* within and after a scope
NextConnector ==
    \/ ConnectorNew
    \/ \E i \in 1..MaxConn : ConnectorEnter(i)
    \/ \E i \in 1..MaxConn : \E cause \in {"normal", "exception"} :
          ConnectorExit(i, cause)
    \/ \E i \in 1..MaxConn :
          \E resp \in {[kind |-> "json", data |-> 1], [kind |-> "ClientError"]} :
             GetMetadata(i, resp, MaxConnSeconds * TicksPerSecond)

SpecConnector == Init /\ [][NextConnector]_vars

\* a connector of a caller, entered once, and every answer of the server
NextResponses ==
    \/ ConnectorNew
    \/ \E i \in 1..MaxConn : ConnectorEnter(i)
    \/ Elapse(1, MaxConnSeconds * TicksPerSecond)
    \/ \E i \in 1..MaxConn : \E resp \in AllResponses :
          \/ Request(i, "_make_request", <<>>, "Search",
                     Some(<< <<"q", "a">> >>), resp,
                     MaxConnSeconds * TicksPerSecond)
          \/ GetMetadata(i, resp, MaxConnSeconds * TicksPerSecond)

SpecResponses == Init /\ [][NextResponses]_vars

\* two parameter mappings with the same keys and values, built in different
\* insertion orders
ParamOrders == {Some(<< <<"p", "a">>, <<"det", "b">> >>),
                Some(<< <<"det", "b">>, <<"p", "a">> >>)}

\* the clock of SpecCache: MaxConnSeconds of calls, one wait of about the
\* time to live, MaxConnSeconds of calls again
CacheLimit ==
    IF now <= MaxConnSeconds * TicksPerSecond
    THEN MaxConnSeconds * TicksPerSecond
    ELSE (ttl + MaxConnSeconds) * TicksPerSecond

\* the INE connector of a service, whose cache entries live and expire
NextCache ==
    \/ Enter("none", FALSE)
    \/ Elapse(1, MaxConnSeconds * TicksPerSecond)
    \/ Elapse(ttl * TicksPerSecond - 1, (ttl + MaxConnSeconds) * TicksPerSecond)
    \/ Elapse(ttl * TicksPerSecond, (ttl + MaxConnSeconds) * TicksPerSecond)
    \/ \E params \in ParamOrders : \E resp \in Responses :
          ServiceRequest("ine", "DATOS", params, resp, CacheLimit)

SpecCache == Init /\ [][NextCache]_vars

\* a refresh whose conversions fetch, wait for the limiter and fail on single
\* datasets
NextFanout ==
    \/ Enter("none", FALSE)
    \/ UpstreamReports("aemet", <<RawIPCw, RawObs>>)
    \/ RefreshCatalog
    \/ ConvFetch("ine", [kind |-> "ClientError"],
                 MaxFanoutSeconds * TicksPerSecond)
    \/ ConvWake("ine", [kind |-> "ClientError"])
    \/ \E n \in Names : ConvFinish(n, "return")
    \/ \E n \in Names : \E failAt \in 1..2 : ConvSkip(n, failAt)
    \/ RefreshComplete(FALSE)

SpecFanout == Init /\ [][NextFanout]_vars

\* the arguments of get_dataset_data
Jan1 == [type |-> "datetime", year |-> 2024, month |-> 1, day |-> 1]
Dec31 == [type |-> "datetime", year |-> 2023, month |-> 12, day |-> 31]
Text2024 == [type |-> "str", text |-> <<"2", "0", "2", "4">>]

StartDates == {None, Some(Jan1), Some(Text2024)}
EndDates == {None, Some(Dec31), Some(Text2024)}
LastNs == {None, Some(12)}
Options ==
    {[periodicity |-> None, detail_level |-> None,
      friendly_format |-> FALSE, include_metadata |-> FALSE],
     [periodicity |-> Some(1), detail_level |-> Some(2),
      friendly_format |-> TRUE, include_metadata |-> TRUE],
     [periodicity |-> None, detail_level |-> Some(0),
      friendly_format |-> FALSE, include_metadata |-> TRUE]}

\* a connector of a caller asked for the data of a dataset
NextData ==
    \/ ConnectorNew
    \/ \E i \in 1..MaxConn : ConnectorEnter(i)
    \/ \E i \in 1..MaxConn : \E start_date \in StartDates :
          \E end_date \in EndDates : \E last_n \in LastNs :
             \E opts \in Options :
                GetDatasetData(i, start_date, end_date, last_n, opts,
                               [kind |-> "json", data |-> 1],
                               MaxDataSeconds * TicksPerSecond)

SpecData == Init /\ [][NextData]_vars

\* DataDiscoveryService(use_persistent_storage=True)
InitStorage == Constructed(TRUE)

\* a service with persistence whose store fails at times
NextStorage ==
    \/ \E loadFails \in BOOLEAN : Enter("none", loadFails)
    \/ Exit("none", "normal")
    \/ UpstreamChange("ine")
    \/ RemoveDataset("EPA")
    \/ RefreshSteps

SpecStorage == InitStorage /\ [][NextStorage]_vars

\* DataDiscoveryService(use_persistent_storage) with either value of the flag
InitEither == Constructed(TRUE) \/ Constructed(FALSE)

\* what fails in the store, when there is one
StoreFails == IF use_persistent_storage THEN BOOLEAN ELSE {FALSE}

\* a service with or without persistence: scopes, refreshes, removals and
\* direct loads and saves
NextPersist ==
    \/ \E loadFails \in StoreFails : Enter("none", loadFails)
    \/ Exit("none", "normal")
    \/ RemoveDataset("EPA")
    \/ RefreshCatalog
    \/ \E n \in Names, outcome \in {"return", "raise"} : ConvFinish(n, outcome)
    \/ \E saveFails \in StoreFails : RefreshComplete(saveFails)
    \/ \E loadFails \in StoreFails : LoadFromStorage(loadFails)
    \/ \E saveFails \in StoreFails : SaveToStorage(saveFails)

SpecPersist == InitEither /\ [][NextPersist]_vars

\* the storage alone: saves of every list, loads and clears, with and
\* without failures
NextStore ==
    \/ \E list \in SavedLists, fails \in BOOLEAN, closeFails \in BOOLEAN :
          /\ ~(fails /\ closeFails)
          /\ StorageSave(list, fails, closeFails)
    \/ \E fails \in BOOLEAN, reversed \in BOOLEAN : StorageLoad(fails, reversed)
    \/ \E fails \in BOOLEAN : StorageClear(fails)

SpecStore == InitStorage /\ [][NextStore]_vars

\* registrations of a connector class among scopes and refreshes
NextRegister ==
    \/ \E classAttr \in BOOLEAN : AddConnector("custom", classAttr)
    \/ UpstreamChange("ine")
    \/ Enter("none", FALSE)
    \/ Exit("none", "normal")
    \/ RefreshCatalog
    \/ \E n \in Names : ConvFinish(n, "return")
    \/ RefreshComplete(FALSE)

SpecRegister == Init /\ [][NextRegister]_vars

\* the sizes of SpecEvict: the distinct keys asked for, and its clock
MaxKeys == 102    \* distinct keys asked of one connector
MaxEvictSeconds == 104    \* the clock of SpecEvict stops there

\* the parameters of the k-th distinct request
Nult(k) == Some(<< <<"nult", k>> >>)

\* the number in a key
NultOf(key) == key[Len(key) - 1]

\* the highest number among the keys in the cache of instance i
Newest(i) ==
    IF cache[i] = <<>> THEN 0
    ELSE NultOf((CHOOSE e \in Range(cache[i]) :
                    \A f \in Range(cache[i]) :
                       NultOf(f.key) <= NultOf(e.key)).key)

\* the keys asked of instance i next: the next new key and, when the cache
\* is about to be full or full, the first key and the key evicted last
NextKeys(i) ==
    {Newest(i) + 1} \cup
    (IF Len(cache[i]) < maxsize - 1 THEN {}
     ELSE {1} \cup (IF last.op = "request" /\ last.evicted # None
                    THEN {NultOf(last.evicted[1])} ELSE {}))

\* the INE connector of a service asked for more keys than its cache holds:
\* each new key once, in turn, and, when the cache is about to be full or
\* full, the first key and the key evicted last again
NextEvict ==
    \/ Enter("none", FALSE)
    \/ /\ active_connectors["ine"] # 0
       /\ \E k \in NextKeys(active_connectors["ine"]) \cap 1..MaxKeys :
             ServiceRequest("ine", "DATOS", Nult(k),
                            [kind |-> "json", data |-> 1],
                            MaxEvictSeconds * TicksPerSecond)

SpecEvict == Init /\ [][NextEvict]_vars

(***************************************************************************)
(* The claims.                                                             *)
(***************************************************************************)
QueryOps == {"search_datasets", "get_dataset_metadata", "list_all_datasets"}

RefreshDone == last.op = "refresh_catalog" /\ last.status = "ok"

\* the step in which refresh_catalog resumes after gather and returns
Completes == Refreshing /\ task' = NoTasks

\* C1: get_dataset(id) returns exactly the value of the latest write of the
\* id when the id was not deleted since, and fails with KeyError when the id
\* was never written or was deleted since; the catalog holds one entry per id.
C1_GetReturnsLatestAdd ==
    /\ \A id \in Ids :
          IF lastEvent[id].kind = "add"
          THEN get_dataset(datasets, id) =
                  [status |-> "ok", value |-> Some(lastEvent[id].value)]
          ELSE get_dataset(datasets, id).status = "KeyError"
    /\ \A i, j \in 1..Len(datasets) : datasets[i].id = datasets[j].id => i = j

\* C1 witness: IPC was stored before EPA and stored again after it with another
\* value, GDP is absent, and get_dataset("IPC") has returned the later value.
C1_Witness ==
    /\ last.op = "get_dataset_metadata" /\ last.args = <<"IPC">>
    /\ last.status = "ok" /\ last.value[1].last_updated = 1
    /\ Len(datasets) = 2
    /\ datasets[1].id = "IPC" /\ datasets[2].last_updated = 0
    /\ lastEvent["GDP"].kind = "absent"

\* C2 (as claimed): a refresh_catalog called outside every scope of the
\* service fails with RuntimeError, calls no conversion and saves nothing.
C2_InactiveRefreshRejected ==
    (last.op = "refresh_catalog" /\ ~last.inScope)
        => (last.status = "RuntimeError" /\ convCalls = NoCalls
            /\ last.saves = 0)

\* the datasets the healthy connectors of this call returned, in the order
\* of the connectors
RECURSIVE HealthyReturned(_)
HealthyReturned(names) ==
    IF names = <<>> THEN <<>>
    ELSE (IF task[Head(names)] = "done"
             /\ results[Head(names)].outcome = "return"
          THEN Converted(Head(names)) ELSE <<>>)
         \o HealthyReturned(Tail(names))

\* the last dataset of the list that has the id
LastWithId(list, id) ==
    list[CHOOSE i \in 1..Len(list) :
            /\ list[i].id = id
            /\ \A j \in (i + 1)..Len(list) : list[j].id # id]

\* C3: whichever conversions raise, refresh_catalog returns normally, a
\* conversion that raised contributes the empty list, and for every dataset a
\* healthy connector returned the catalog holds an entry under its id: the
\* dataset itself, or the one a later healthy connector returned under that id.
C3_FailureIsolation ==
    [][Completes =>
         /\ last'.status = "ok"
         /\ \A n \in Names :
               (task[n] = "done" /\ results[n].outcome = "raise")
                  => results[n].datasets = <<>>
         /\ \A i \in 1..Len(HealthyReturned(connectors)) :
               LET id == HealthyReturned(connectors)[i].id
               IN  /\ DictHas(datasets', id)
                   /\ DictGet(datasets', id)
                         = LastWithId(HealthyReturned(connectors), id)]_vars

\* C3 witness: of three active connectors ine raised, and the catalog holds
\* the datasets of aemet and eurostat.
C3_Witness ==
    /\ RefreshDone
    /\ last.connectors = Names /\ last.failed = {"ine"}
    /\ DictKeys(datasets) = {"IPC", "GDP"}
    /\ DictGet(datasets, "IPC").source = "aemet"

\* C4: one refresh_catalog call calls convert_to_standard_metadata once on
\* each active connector and on no other, and when it returns every id a
\* connector returned is in the catalog, add_dataset having been called once
\* per returned dataset.
C4_EveryReturnedIdPresent ==
    [][Completes =>
         /\ \A n \in Names :
               convCalls[n] = IF active_connectors[n] # 0 THEN 1 ELSE 0
         /\ \A n \in Names : \A i \in 1..Len(results[n].datasets) :
               DictHas(datasets', results[n].datasets[i].id)
         /\ last'.adds = Len(results["ine"].datasets)
                         + Len(results["aemet"].datasets)
                         + Len(results["eurostat"].datasets)]_vars

\* C4 witness: a refresh of three connectors that returned four datasets
\* under three ids.
C4_Witness ==
    /\ RefreshDone
    /\ last.connectors = Names /\ last.failed = {}
    /\ last.adds = 4
    /\ DictKeys(datasets) = Ids

\* C5 (as claimed): when a scope of the service is left, every connector the
\* scope opened has been closed exactly once and no connector is active.
C5_ExitClosesEveryConnector ==
    last.op = "exit" =>
        /\ ActiveNames = {}
        /\ \A i \in last.opened : session[i] = "closed" /\ closeCalls[i] = 1

\* C6 (as claimed): when one connector fails to open, entering the scope
\* still completes and every other configured connector is active and open.
C6_EnterSurvivesOpenFailure ==
    (last.op = "enter" /\ last.failed # "none") =>
        /\ last.status = "ok"
        /\ \A n \in Names \ {last.failed} :
              /\ active_connectors[n] # 0
              /\ session[active_connectors[n]] = "open"

\* C7 (as claimed): search, get and list called outside every scope of the
\* service fail with RuntimeError.
C7_QueriesRejectedWhenInactive ==
    (last.op \in QueryOps /\ ~last.inScope) => last.status = "RuntimeError"

\* C7 (amended): in every state, inside a scope or not, search, get and list
\* return what the catalog returns for the same arguments and never fail with
\* RuntimeError; get fails with KeyError for an absent id.
C7_QueriesDelegateInEveryState ==
    /\ last.op = "search_datasets" =>
          /\ last.status = "ok"
          /\ last.value = search_datasets(datasets, last.args[1], last.args[2])
    /\ last.op = "get_dataset_metadata" =>
          /\ last.status = IF last.args[1] \in DictKeys(datasets)
                           THEN "ok" ELSE "KeyError"
          /\ last.value = get_dataset(datasets, last.args[1]).value
    /\ last.op = "list_all_datasets" =>
          /\ last.status = "ok"
          /\ last.value = list_datasets(datasets)

\* C7 witness: list called outside every scope has returned the entries of a
\* catalog that is not empty.
C7_Witness ==
    /\ last.op = "list_all_datasets"
    /\ ~last.inScope
    /\ last.value # <<>>
    /\ last.value = datasets

\* C8: a refresh_catalog that follows a refresh_catalog directly and merges
\* the same datasets (timestamps apart) leaves the catalog as the first left
\* it, timestamps apart: the same ids, the same entries, none twice.
C8_RefreshIdempotent ==
    [][(Completes /\ last.previous = Some(Undated(Flatten(results, connectors))))
          => /\ Undated(datasets') = Undated(datasets)
             /\ Cardinality(DictKeys(datasets')) = Len(datasets')]_vars

\* C8 witness: the second of two such refreshes has returned, with three ids
\* in the catalog and timestamps that differ from those of the first.
C8_Witness ==
    /\ RefreshDone
    /\ last.repeats /\ ~last.exact
    /\ last.adds = 4
    /\ DictKeys(datasets) = Ids

\* C9: refresh_catalog starts the conversion of every active connector, no
\* started conversion ends otherwise than by completing, and the call writes
\* the catalog and returns only when every started conversion has completed.
C9_WaitsForAll ==
    [][/\ (~Refreshing /\ Refreshing') =>
              \A n \in ActiveNames : task'[n] = "running" /\ convCalls'[n] = 1
       /\ \A n \in Names :
              task[n] = "running" => task'[n] \in {"running", "done"}
       /\ (Refreshing /\ (datasets' # datasets \/ ~Refreshing')) =>
              \A n \in ActiveNames : task[n] = "done"]_vars

\* C9 witness: eurostat and aemet have completed, ine is still running, and
\* the catalog has not been written.
C9_Witness ==
    /\ last.op = "refresh_catalog" /\ last.status = "pending"
    /\ task = [n \in Names |-> IF n = "ine" THEN "running" ELSE "done"]
    /\ results["aemet"].datasets # <<>>
    /\ datasets = <<>>

\* q occurs in s, letter case apart
OccursIgnoringCase(q, s) ==
    \E i \in 0..(Len(s) - Len(q)) :
        \A j \in 1..Len(q) : LowerChar(q[j]) = LowerChar(s[i + j])

\* C10: search_datasets(q) without a tags filter returns, each once, exactly
\* the entries in whose name, description (when there is one) or some tag q
\* occurs, letter case apart; an empty result is returned normally.
C10_SearchReturnsExactlyMatches ==
    (last.op = "search_datasets" /\ last.args[2] = None) =>
        /\ last.status = "ok"
        /\ Range(last.value) =
              {m \in Range(datasets) :
                  \/ OccursIgnoringCase(last.args[1], m.name)
                  \/ /\ m.description # None
                     /\ OccursIgnoringCase(last.args[1], m.description[1])
                  \/ \E t \in Range(m.tags) :
                        OccursIgnoringCase(last.args[1], t)}
        /\ Cardinality(Range(last.value)) = Len(last.value)

\* C10 witness: the search for "p" has returned the aemet dataset, which
\* matches by its tag "Pa" alone, and has left out GDP, which does not match.
C10_Witness ==
    /\ last.op = "search_datasets" /\ last.args = << <<"p">>, None >>
    /\ DictKeys(datasets) = {"IPC", "GDP"}
    /\ Len(last.value) = 1
    /\ last.value[1].source = "aemet"

\* q occurs, letter case apart, in the name, the description or a tag of m
MatchesQuery(q, m) ==
    \/ OccursIgnoringCase(q, m.name)
    \/ m.description # None /\ OccursIgnoringCase(q, m.description[1])
    \/ \E t \in Range(m.tags) : OccursIgnoringCase(q, t)

\* C11: search_datasets with a tags filter returns exactly the entries that
\* match the query and carry every listed tag: an entry that lacks one listed
\* tag is left out though it matches the query, an entry that matches and
\* carries them all is returned.
C11_TagsFilterIsConjunctive ==
    (last.op = "search_datasets" /\ last.args[2] # None) =>
        /\ last.status = "ok"
        /\ Range(last.value) =
              {m \in Range(datasets) :
                  /\ MatchesQuery(last.args[1], m)
                  /\ \A t \in Range(last.args[2][1]) : t \in Range(m.tags)}

\* C11 witness: the search for "b" with the tags "Pa" and "b" has returned
\* the aemet dataset, which carries both, and has left out GDP, which matches
\* the query by its tag "aB" and carries neither listed tag.
C11_Witness ==
    /\ last.op = "search_datasets"
    /\ last.args = << <<"b">>, Some(<< <<"P", "a">>, <<"b">> >>) >>
    /\ DictKeys(datasets) = {"IPC", "GDP"}
    /\ MatchesQuery(<<"b">>, DictGet(datasets, "GDP"))
    /\ Len(last.value) = 1
    /\ last.value[1].source = "aemet"

\* C12: remove_dataset(id) never raises; on an absent id it leaves the mapping
\* as it is, on a present id it deletes that entry and keeps every other entry
\* and their order; get_dataset(id) then fails with KeyError, and an id that
\* is absent becomes present only through add_dataset of that id.
C12_RemoveDeletesExactlyOne ==
    [][/\ last'.op = "remove_dataset" =>
            /\ last'.status = "ok"
            /\ datasets' = SelectSeq(datasets, LAMBDA e : e.id # last'.id)
            /\ get_dataset(datasets', last'.id).status = "KeyError"
       /\ \A id \in Ids :
            (~DictHas(datasets, id) /\ DictHas(datasets', id)) =>
                (last'.op = "add_dataset" /\ lastEvent'[id].kind = "add")
      ]_vars

\* C12 witness: IPC was present and has been removed; EPA and GDP, stored
\* before and after it, are still there, and IPC is absent.
C12_Witness ==
    /\ last.op = "remove_dataset" /\ last.id = "IPC" /\ last.present
    /\ Len(datasets) = 2
    /\ datasets[1].id = "EPA" /\ datasets[2].id = "GDP"
    /\ get_dataset(datasets, "IPC").status = "KeyError"

\* connector a comes before connector b in the configuration
Before(a, b) == Index(connectors, a) < Index(connectors, b)

\* the conversion of connector n returned, and returned dataset d
Reported(n, d) ==
    /\ task[n] = "done"
    /\ \E i \in 1..Len(results[n].datasets) : results[n].datasets[i] = d

\* C13 (as claimed): when two connectors return a dataset under the same id,
\* the entry kept is that of the connector whose conversion completed last.
C13_ArrivalOrderDecides ==
    [][Completes =>
         \A a, b \in Names : \A i \in 1..Len(results[a].datasets) :
            \A j \in 1..Len(results[b].datasets) :
               (/\ a # b /\ task[a] = "done" /\ task[b] = "done"
                /\ results[a].datasets[i].id = results[b].datasets[j].id
                /\ last.lastDone = a)
               => DictGet(datasets', results[a].datasets[i].id).source = a]_vars

\* C13 (amended): when several connectors return a dataset under the same id,
\* one entry is kept under the id, and it is the dataset of the connector
\* that comes last in the configuration, whichever conversion completed last.
C13_ConfigurationOrderDecides ==
    [][Completes =>
         /\ \A b \in Names : \A j \in 1..Len(results[b].datasets) :
               LET d == results[b].datasets[j]
               IN  (/\ task[b] = "done"
                    /\ \A c \in Names : \A e \in Range(results[c].datasets) :
                          (Before(b, c) /\ task[c] = "done") => e.id # d.id
                    /\ \A k \in (j + 1)..Len(results[b].datasets) :
                          results[b].datasets[k].id # d.id)
                   => DictGet(datasets', d.id) = d
         /\ Cardinality(DictKeys(datasets')) = Len(datasets')]_vars

\* C13 witness: ine and aemet both returned IPC, the conversion of ine
\* completed last, and the entry of IPC is the one of aemet.
C13_Witness ==
    /\ RefreshDone
    /\ last.connectors = Names /\ last.failed = {}
    /\ last.lastDone = "ine"
    /\ \E i, j \in 1..Len(last.all) :
          /\ last.all[i].id = "IPC" /\ last.all[i].source = "ine"
          /\ last.all[j].id = "IPC" /\ last.all[j].source = "aemet"
    /\ DictGet(datasets, "IPC").source = "aemet"

\* C14 (as claimed): an entry of the catalog that no connector returns in a
\* refresh_catalog in which every conversion returned is absent from the
\* catalog when that refresh_catalog returns.
C14_UnreportedEntriesRemoved ==
    [][(Completes /\ \A n \in Names :
                        task[n] = "done" => results[n].outcome = "return")
          => \A id \in DictKeys(datasets) :
                (\A n \in Names : \A d \in Range(results[n].datasets) :
                      d.id # id)
                   => ~DictHas(datasets', id)]_vars

\* C15: search, get and list leave the catalog, the store, the sessions and
\* the connectors as they are: no entry is written, no row is written, no
\* conversion is called and no connector is opened or closed.
C15_QueriesChangeNothing ==
    [][(last'.op \in QueryOps /\ last' # last) =>
          UNCHANGED <<datasets, table, upstream, active_connectors, session,
                      closeCalls, scopes, now, task, results, convCalls,
                      lastEvent, limiter, cache, sent>>]_vars

\* C15 witness: inside a scope with every connector active and after a
\* refresh, get has returned the entry of GDP.
C15_Witness ==
    /\ last.op = "get_dataset_metadata" /\ last.args = <<"GDP">>
    /\ last.inScope /\ ActiveNames = Names
    /\ last.status = "ok" /\ last.value[1].source = "eurostat"
    /\ DictKeys(datasets) = Ids

\* C16 (as claimed): within the first 60 seconds, no connector instance has
\* sent more requests to the network than its rate_limit.
C16_AdmitsAtMostRateLimit ==
    now < RateWindowSeconds * TicksPerSecond =>
        \A n \in Names :
            active_connectors[n] # 0 =>
                sent[active_connectors[n]] <= rate_limit[n]

\* C17 (as claimed): a fetch waits for the limiter only behind a call that was
\* made on the same connector instance.
C17_LimiterPerInstance ==
    (last.op = "fetch" /\ last.finished > last.started) =>
        last.blockedBy = last.inst

\* C18: a fetch whose key has a live entry in the cache of its connector
\* returns the payload of that entry, sends no request to the network and
\* leaves the entries of every cache as they are (the read only makes its
\* entry the most recently used).
C18_LiveEntryServedFromCache ==
    [][\A i \in Instances : \A k \in 1..Len(cache[i]) :
          (/\ last'.op = "fetch" /\ last' # last
           /\ last'.inst = i /\ last'.key = cache[i][k].key
           /\ Live(cache[i][k], last'.finished))
          => /\ last'.status = "ok"
             /\ last'.hit /\ ~last'.network
             /\ last'.value = [kind |-> "dict", data |-> cache[i][k].payload]
             /\ sent' = sent
             /\ \A j \in Instances : Range(cache'[j]) = Range(cache[j])
             /\ cache'[i] = cache_touch(cache[i], last'.key)]_vars

\* C18 witness: ine has fetched both keys from the network, the first at an
\* earlier time, and the latest fetch has returned the payload stored for the
\* first key without a request.
C18_Witness ==
    /\ last.op = "fetch" /\ last.name = "ine" /\ last.hit
    /\ Len(cache[last.inst]) = 2
    /\ cache[last.inst][2].key = last.key
    /\ cache[last.inst][2].stored < cache[last.inst][1].stored
    /\ last.value.data = cache[last.inst][2].payload
    /\ sent[last.inst] = 2

\* C19 (as claimed): a fetch served from the cache returns at the time it was
\* called and leaves the count of the limiter as it was.
C19_CacheHitTakesNoSlot ==
    (last.op = "fetch" /\ last.hit) =>
        (last.finished = last.started /\ ~last.slot)

\* C20 (as claimed): the third of three get_metadata calls made one after the
\* other on an INE connector returns no earlier than 2 seconds after the
\* first was made.
C20_ThreeCallsTakeTwoSeconds ==
    (/\ last.op = "fetch" /\ last.name = "ine"
     /\ last.key = cache_key("OPERACIONES", None)
     /\ Len(last.starts) = 3)
    => last.finished - last.starts[1] >= 2 * TicksPerSecond

\* a step is a call of _make_request on a caller's connector: every call
\* counts in the limiter
RequestStep == limiter' # limiter /\ last'.op = "request"

\* C21: for every transport failure and every non-2xx response of the GET, a
\* fetch on an open connector returns the empty mapping and does not raise.
C21_FailedRequestReturnsEmpty ==
    (/\ last.op = "request"
     /\ last.open
     /\ last.network
     /\ last.resp \in {"ClientError", "TimeoutError", "status"}) =>
        (last.status = "ok" /\ last.value = Empty)

\* C22: the cache only holds payloads of successful responses that are a
\* mapping or a sequence: a request that fails, a body that is no JSON and a
\* scalar JSON body return the empty mapping and leave the cache as it was, so
\* that the key is still missing for the next fetch; an entry enters the
\* cache only as the payload a successful response has just returned.
C22_FailuresLeaveCacheUnchanged ==
    [][(RequestStep /\ last'.open /\ last'.network) =>
          LET i == last'.inst
          IN  /\ last'.resp # "json" =>
                    /\ last'.status = "ok"
                    /\ last'.value = Empty
                    /\ cache' = cache
                    /\ ~cache_contains(cache'[i], last'.key, now')
              /\ \A e \in Range(cache'[i]) :
                    \/ e \in Range(cache[i])
                    \/ /\ last'.resp = "json"
                       /\ e.key = last'.key
                       /\ last'.value = [kind |-> "dict", data |-> e.payload]
      ]_vars

\* C23: a fetch on a connector that has not entered its scope raises
\* RuntimeError, sends no request and leaves the cache as it was; entering
\* the scope opens the session, and leaving it, normally or by an exception,
\* closes the session; a session stops being open only when its scope is
\* left.
C23_SessionIsScoped ==
    [][/\ (RequestStep /\ session[last'.inst] = "none") =>
            /\ last'.status = "RuntimeError"
            /\ ~last'.network
            /\ sent' = sent
            /\ cache' = cache
       /\ (last' # last /\ last'.op = "aenter") =>
            session'[last'.inst] = "open"
       /\ (last' # last /\ last'.op = "aexit") =>
            /\ session[last'.inst] = "open"
            /\ session'[last'.inst] = "closed"
            /\ closeCalls'[last'.inst] = closeCalls[last'.inst] + 1
       /\ \A i \in Instances :
            (session[i] = "open" /\ session'[i] # "open") =>
                (last'.op = "aexit" /\ last'.inst = i)
      ]_vars

\* C23 witness: the connector was called before it entered its scope (the
\* limiter has counted the call, nothing was sent and nothing is cached);
\* then its scope was entered and was left by an exception, and its session
\* is closed.
C23_Witness ==
    /\ last.op = "aexit" /\ last.cause = "exception"
    /\ session[last.inst] = "closed"
    /\ closeCalls[last.inst] = 1
    /\ limiter.by = last.inst /\ limiter.num_calls = 1 /\ now = 0
    /\ sent[last.inst] = 0
    /\ cache[last.inst] = <<>>

\* C24: a cached payload is served only while less than the time to live
\* (3600 s) has passed since it was stored; a fetch that finds the entry of
\* its key expired sends a request and, when the request succeeds, stores the
\* payload anew, at the time of this fetch.
C24_EntriesExpireAfterTTL ==
    [][(RequestStep /\ last'.open) =>
          LET i == last'.inst
              t == last'.finished
              held == {e \in Range(cache[i]) : e.key = last'.key}
          IN  /\ last'.hit =>
                    \E e \in held :
                       /\ t - e.stored < ttl * TicksPerSecond
                       /\ last'.value = [kind |-> "dict", data |-> e.payload]
              /\ (/\ held # {}
                  /\ \A e \in held : t - e.stored >= ttl * TicksPerSecond) =>
                    /\ ~last'.hit
                    /\ last'.network
                    /\ sent'[i] = sent[i] + 1
                    /\ last'.resp = "json" =>
                          \E e \in Range(cache'[i]) :
                             /\ e.key = last'.key
                             /\ e.stored = t
                             /\ last'.value = [kind |-> "dict",
                                               data |-> e.payload]
      ]_vars

\* C24 witness: a fetch found the entry of its key expired, sent a request,
\* got a JSON mapping and stored it at the time of the fetch.
C24_Witness ==
    /\ last.op = "request" /\ last.expired
    /\ last.network /\ last.resp = "json" /\ last.status = "ok"
    /\ last.finished >= ttl * TicksPerSecond
    /\ \E e \in Range(cache[last.inst]) :
          e.key = last.key /\ e.stored = last.finished

\* the items of a parameter mapping
Items(params) == IF params = None THEN {} ELSE Range(params[1])

\* C25: the cache key is computed from the endpoint and the canonicalized
\* parameters: a fetch that comes right after a successful fetch on the same
\* connector, with the same endpoint and a parameter mapping with the same
\* items, in whatever insertion order, is a cache hit.
C25_EqualMappingsShareEntry ==
    [][(/\ RequestStep
        /\ last.op = "request" /\ last.open /\ last.status = "ok"
        /\ last.resp = "json"
        /\ last'.inst = last.inst
        /\ last'.endpoint = last.endpoint
        /\ Items(last'.params) = Items(last.params)
        /\ last'.finished - last.finished < ttl * TicksPerSecond) =>
          last'.hit
      ]_vars

\* C26: a wait for a rate-limit slot is a suspension point: while the fetch
\* of one conversion waits, every other conversion of the fan-out that is
\* running is able to take its step and complete.
C26_WaitLetsOthersRun ==
    \A n \in Names : \A m \in Names :
        (task[n] = "sleeping" /\ task[m] = "running") =>
            ENABLED ConvFinish(m, "return")

\* C27: for every connector variant, when the processing of one dataset of
\* the listing fails during convert_to_standard_metadata, the conversion
\* returns normally with every other dataset of the listing, those before
\* and those after the failing one, in the order of the listing.
C27_OnlyFailingDatasetOmitted ==
    (/\ last.op = "refresh_catalog" /\ last.status = "pending"
     /\ last.failAt > 0) =>
        LET n == last.lastDone
        IN  /\ ~results[n].raised
            /\ results[n].outcome = "return"
            /\ Undated(results[n].datasets) =
                  Undated(Without(Converted(n), last.failAt))

\* C28: get_metadata makes one fetch of the listing endpoint and never lets a
\* failure of that fetch reach its caller: when the fetch fails it returns a
\* static fallback payload (name, description, version), a mapping that is
\* not empty.
C28_MetadataFallsBackOnFailure ==
    (/\ last.op = "request" /\ last.method = "get_metadata"
     /\ last.open /\ last.network
     /\ last.resp \in {"ClientError", "TimeoutError", "status"}) =>
        /\ last.status = "ok"
        /\ last.value.kind = "dict"
        /\ last.value # Empty

\* the parameter mapping has the key k
HasParam(params, k) == \E j \in 1..Len(params[1]) : params[1][j][1] = k

\* the value of the key k
ParamValue(params, k) ==
    params[1][CHOOSE j \in 1..Len(params[1]) : params[1][j][1] = k][2]

\* a date argument as the source expects it: YYYYMMDD
Expected(d) ==
    CASE d = Jan1 -> <<"2", "0", "2", "4", "0", "1", "0", "1">>
      [] d = Dec31 -> <<"2", "0", "2", "3", "1", "2", "3", "1">>
      [] OTHER -> d.text

\* C29: get_dataset_data makes its one fetch on the series endpoint of the
\* dataset with time parameters of exactly one mode: with last_n, nult =
\* last_n and no date, whatever the dates; without last_n and with
\* start_date, date = start, or start:end when end_date is given, and no
\* nult; without both, neither nult nor date, also when end_date is given.
C29_TimeSelectionModes ==
    (last.op = "request" /\ last.method = "get_dataset_data") =>
        LET start_date == last.args[1]
            end_date == last.args[2]
            last_n == last.args[3]
        IN  /\ last.endpoint = "DATOS_SERIE/IPC"
            /\ last.params # None
            /\ last_n # None =>
                  /\ HasParam(last.params, "nult")
                  /\ ParamValue(last.params, "nult") = last_n[1]
                  /\ ~HasParam(last.params, "date")
            /\ (last_n = None /\ start_date # None) =>
                  /\ ~HasParam(last.params, "nult")
                  /\ HasParam(last.params, "date")
                  /\ ParamValue(last.params, "date") =
                        IF end_date # None
                        THEN Expected(start_date[1]) \o <<":">>
                                \o Expected(end_date[1])
                        ELSE Expected(start_date[1])
            /\ (last_n = None /\ start_date = None) =>
                  /\ ~HasParam(last.params, "nult")
                  /\ ~HasParam(last.params, "date")

\* C29 witness: get_dataset_data was called with last_n and with both dates,
\* and has fetched with nult and without date.
C29_Witness ==
    /\ last.op = "request" /\ last.method = "get_dataset_data"
    /\ last.args[1] = Some(Jan1) /\ last.args[2] = Some(Dec31)
    /\ last.args[3] = Some(12)
    /\ last.network /\ last.status = "ok"
    /\ HasParam(last.params, "nult")
    /\ ~HasParam(last.params, "date")

\* C30: a failure of the store does not fail a refresh: when the save made
\* by refresh_catalog with persistence enabled fails, save_datasets reports
\* False and writes no row, refresh_catalog returns normally, and the catalog
\* holds an entry of this refresh under the id of every dataset the
\* connectors returned.
C30_SaveFailureDoesNotFailRefresh ==
    [][(GatherComplete /\ task' = NoTasks /\ use_persistent_storage) =>
          /\ last'.op = "refresh_catalog"
          /\ last'.status = "ok"
          /\ last'.saves = 1
          /\ last'.saveFails => (~last'.saveOk /\ table' = table)
          /\ \A d \in Range(Flatten(results, connectors)) :
                /\ DictHas(datasets', d.id)
                /\ DictGet(datasets', d.id) \in Range(Flatten(results, connectors))
      ]_vars

\* C30 witness: a refresh with persistence enabled has returned normally
\* though its save failed; the catalog holds the three refreshed datasets and
\* the table is still empty.
C30_Witness ==
    /\ last.op = "refresh_catalog" /\ last.status = "ok"
    /\ use_persistent_storage
    /\ last.saveFails /\ ~last.saveOk
    /\ DictKeys(datasets) = Ids
    /\ table = <<>>

\* the calls the latest operation made on the storage
StoreCalls ==
    CASE last.op = "refresh_catalog" -> last.saves
      [] last.op \in {"enter", "load_from_storage", "save_to_storage"} ->
            last.store
      [] OTHER -> 0

\* C31: with persistence enabled, a refresh_catalog that runs calls the
\* storage save exactly once, after all its upserts and with the whole
\* catalog (a save that succeeds leaves the rows of every catalog entry as
\* they are after the upserts); with persistence disabled no operation
\* (enter, refresh, load_from_storage, save_to_storage) calls the storage,
\* and the table never changes.
C31_SaveOncePerRefresh ==
    [][/\ (GatherComplete /\ task' = NoTasks /\ use_persistent_storage) =>
            /\ last'.op = "refresh_catalog"
            /\ last'.saves = 1
            /\ ~last'.saveFails =>
                  table' = InsertAll(table, datasets')
       /\ ~use_persistent_storage =>
            /\ table' = table
            /\ StoreCalls' = 0
      ]_vars

\* C31 witness: a refresh with persistence enabled has saved once, and the
\* table holds a row for each of the three entries of the catalog.
C31_Witness ==
    /\ use_persistent_storage
    /\ last.op = "refresh_catalog" /\ last.status = "ok"
    /\ last.saves = 1 /\ last.saveOk
    /\ DictKeys(datasets) = Ids
    /\ table = InsertAll(<<>>, list_datasets(datasets))

\* the last dataset of the list with the id, as the upserts leave it
LatestOf(list, id) ==
    list[CHOOSE i \in 1..Len(list) :
            /\ list[i].id = id
            /\ \A j \in (i + 1)..Len(list) : list[j].id # id]

\* C32: a save is an idempotent upsert by id: after a save that succeeded,
\* saving the same list again leaves the table as it is, the table holds at
\* most one row per id, the row of every id of the list is that of the
\* list's latest dataset with the id, and every other row is as before.
C32_SaveIsIdempotentUpsert ==
    (last.op = "save_datasets" /\ ~last.fails) =>
        /\ save_datasets(table, last.list, FALSE).rows = table
        /\ \A i, j \in 1..Len(table) : table[i].id = table[j].id => i = j
        /\ DictKeys(table) = DictKeys(last.before) \cup DictKeys(last.list)
        /\ \A id \in DictKeys(last.list) :
              DictGet(table, id) = Row(LatestOf(last.list, id))
        /\ \A id \in DictKeys(last.before) \ DictKeys(last.list) :
              DictGet(table, id) = DictGet(last.before, id)

\* C32 witness: a list with two versions of IPC was saved over a table that
\* held the older one; the table holds the one row of the later version.
C32_Witness ==
    /\ last.op = "save_datasets" /\ last.ok
    /\ last.list = <<DatasetMetadata(RawIPC, 0), DatasetMetadata(RawIPCw, 1)>>
    /\ DictHas(last.before, "IPC")
    /\ table = <<Row(DatasetMetadata(RawIPCw, 1))>>

C38_SaveIsAllOrNothing ==
    (last.op = "save_datasets" /\ last.fails) =>
        /\ ~last.ok
        /\ table = last.before

\* C38 witness: the save of two new datasets failed over a table that held
\* another one.
C38_Witness ==
    /\ last.op = "save_datasets" /\ last.fails /\ ~last.ok
    /\ last.list = <<DatasetMetadata(RawEPA, 0), DatasetMetadata(RawGDP, 1)>>
    /\ table = <<Row(DatasetMetadata(RawIPC, 0))>>

\* C39: after a save_to_storage that succeeded, the ids of the table are the
\* ids of the catalog.
C39_StoreMirrorsCatalog ==
    (last.op = "save_to_storage" /\ last.store = 1 /\ last.saveOk) =>
        DictKeys(table) = DictKeys(datasets)

\* C34: when the service is entered after add_connector(name, cls), name has
\* an active connector, and a refresh that follows converts with it.
C34_RegisteredConnectorIsActive ==
    [][(last.op = "add_connector" /\ last'.op = "enter") =>
          /\ last.status = "ok"
          /\ last.name \in DOMAIN active_connectors'
          /\ active_connectors'[last.name] # 0
      ]_vars

\* C35: when the close of one connector raises during the exit of a scope,
\* the other connectors of the scope are closed all the same and no
\* connector stays active.
C35_ExitClosesDespiteFailure ==
    (last.op = "exit" /\ last.status = "Exception") =>
        /\ ActiveNames = {}
        /\ Cardinality({i \in last.opened : session[i] = "open"}) <= 1

\* C36: whenever no scope of the service is active, no session that the
\* service opened is still open.
C36_NoSessionOutlivesScopes ==
    scopes = <<>> =>
        \A i \in Instances : session[i] # "open"

\* C37: a fetch on a connector whose scope has been left is rejected as on a
\* connector that never entered: it raises the RuntimeError of the session
\* check, returns no cached payload and attempts no request.
C37_FetchAfterExitRejected ==
    (last.op = "request" /\ session[last.inst] = "closed") =>
        /\ last.status = "RuntimeError"
        /\ last.error = "must be used as async context manager"
        /\ ~last.hit
        /\ ~last.network

\* C40: the cache of a connector never holds more than 100 entries; a fetch
\* that stores a new key in a cache of 100 unexpired entries evicts one of
\* them, the least recently used, and keeps 100; a fetch of an evicted key
\* finds nothing in the cache and sends a request, although the time to live
\* of the evicted entry has not passed.
C40_CacheHoldsAtMostMaxsize ==
    [][/\ \A i \in Instances : Len(cache'[i]) <= maxsize
       /\ (RequestStep /\ last'.open /\ ~last'.hit
             /\ Len(cache[last'.inst]) = maxsize
             /\ \A e \in Range(cache[last'.inst]) : Live(e, last'.finished)) =>
            /\ Len(cache'[last'.inst]) = maxsize
            /\ last'.evicted = Some(Head(cache[last'.inst]).key)
            /\ \A e \in Range(cache'[last'.inst]) :
                  e.key # Head(cache[last'.inst]).key
            /\ \A k \in 2..maxsize :
                  cache[last'.inst][k] \in Range(cache'[last'.inst])
       /\ (RequestStep /\ last.op = "request" /\ last'.open
             /\ last.evicted = Some(last'.key)) =>
            /\ ~last'.hit
            /\ last'.network
            /\ sent'[last'.inst] = sent[last'.inst] + 1
      ]_vars

\* C40 witness: the first key, stored at time 0 and evicted by the 101st
\* distinct key, was fetched again before its time to live had passed, and
\* the fetch sent a request.
C40_Witness ==
    /\ last.op = "request" /\ last.status = "ok"
    /\ last.key = cache_key("DATOS", Nult(1))
    /\ last.network /\ ~last.hit
    /\ last.finished < ttl * TicksPerSecond
    /\ sent[last.inst] = maxsize + 2
    /\ Len(cache[last.inst]) = maxsize
    /\ last.evicted = Some(cache_key("DATOS", Nult(2)))

====
